---- MODULE Spec2Model ----
(***************************************************************************)
(* Model of src/voice_assistant.py: the VoiceAssistant session manager.    *)
(*                                                                         *)
(* The main thread runs main() -> VoiceAssistant() -> start().  `pc` is    *)
(* the statement the main thread executes next.  The collaborator (the     *)
(* Conversation object of the SDK) invokes the agent/user callbacks on its *)
(* own thread while the session is live.  SIGINT is delivered to the main  *)
(* thread between two of its statements: before line 138 ran it raises     *)
(* KeyboardInterrupt there, afterwards it runs handle_interrupt.           *)
(***************************************************************************)
EXTENDS Integers, Sequences, FiniteSets, Bags, TLC

\* ---------------------------------------------------------------- bounds
MaxHistory == 2         \* callbacks fired per run
MaxTime == 2            \* clock ticks per run
MaxSigint == 2          \* SIGINTs delivered per run
TicksPerSecond == 2     \* clock resolution: ticks in one second

\* ------------------------------------------------------------- constants
None == 0 - 1           \* Python None, for an attribute that holds an instant or an exit code
NoFile == <<>>          \* filename=None of save_conversation
ErrorFile == <<"logs/conversation_error.json">>
AgentTexts == {"hi there"}     \* responses the collaborator reports
UserTexts == {"hello"}         \* transcripts the collaborator reports
Corrections == {"hi"}          \* corrected responses the collaborator reports
Latencies == {120}             \* latency samples the collaborator reports
ToolMessages == {"", "note"}   \* message parameters of logMessage invocations
AgentIds == {"unset", "", "abc123"}
Volumes == {"unset", "loud"}
FsStates == {"absent", "dir", "file"}

VARIABLES
    pc,             \* next statement of the main thread
    env,            \* process environment: AGENT_ID, VOLUME
    now,            \* the clock: the latest instant datetime.now() returned, in ticks
    fs,             \* what the path "logs" is: absent, a directory, a plain file
    files,          \* filename -> JSON document, the files under logs/
    agent_id,       \* self.agent_id
    client,         \* self.client exists
    handler,        \* SIGINT handler installed (signal.signal ran)
    tools,          \* logMessage registered in the ClientTools
    start_time,     \* self.start_time
    conversation,   \* self.conversation: "None" or the state of the session object
    history,        \* self.history
    exc,            \* exception in flight to main's handlers
    exitCode,       \* process exit code, None while running
    sigints,        \* SIGINTs delivered so far
    log,            \* the operator-facing log: bag of the lines the logger emitted
    pending,        \* per callback role: the entry a callback thread has built and not yet appended
    calls,          \* history variable: <<role, text>> of every callback invocation, in order
    saves,          \* history variable: every save_conversation invocation
    sessionOps,     \* history variable: session operations invoked, in order
    raised,         \* history variable: kinds of errors raised so far
    intrActive,     \* history variable: handle_interrupt ran while the session was Active
    extraCalls      \* history variable: bag of the correction and logMessage invocations

prog == <<agent_id, client, handler, tools, start_time>>
ghost == <<calls, saves, sessionOps, raised, intrActive, extraCalls>>
vars == <<pc, env, now, fs, files, agent_id, client, handler, tools, start_time,
          conversation, history, exc, exitCode, sigints, calls, saves, sessionOps,
          raised, intrActive, log, pending, extraCalls>>

\* datetime.now(): the instants a reading of the clock can return, none
\* earlier than the latest reading
Readings(last) == last..MaxTime

\* ------------------------------------------------------------ conversions
\* datetime.isoformat(): the instant at full resolution, <<second, fraction>>
isoformat(t) == <<t \div TicksPerSecond, t % TicksPerSecond>>

\* datetime.strftime("%Y%m%d_%H%M%S"): the instant truncated to seconds
strftime(t) == t \div TicksPerSecond

\* os.getenv(name): None for a variable that is not set
getenv(name) == IF env[name] = "unset" THEN "None" ELSE env[name]

\* float(os.getenv("VOLUME", "1.0")): TRUE when the conversion succeeds
VolumeParses == env.VOLUME = "unset"

\* a transcript left in logs/ by an earlier run
StaleDoc ==
    [start_time |-> isoformat(0), end_time |-> isoformat(0),
     history |-> << [role |-> "user", text |-> "stale", timestamp |-> isoformat(0)] >>]

\* f"logs/conversation_{timestamp}.json"
DefaultFile(timestamp) == <<"logs/conversation_", timestamp, ".json">>

\* Path("logs").mkdir(exist_ok=True): the new state of "logs", or "raise"
mkdir(d) ==
    CASE d = "absent" -> "dir"
      [] d = "dir"    -> "dir"
      [] OTHER        -> "raise"          \* FileExistsError: logs is a plain file

\* open(filename, "w") for a file in logs/: TRUE when the file can be opened
open_w(d) == d = "dir"

\* lines 21-26: the logger emits a line of level INFO or above; the result is
\* the log after logger.<level>(text) was called
Logged(line) ==
    IF line[1] = "DEBUG" THEN log ELSE log (+) SetToBag({line})

\* no callback thread holds an entry
NoPending == [role \in {"agent", "user"} |-> <<>>]

\* callbacks and tool invocations the collaborator made so far
CallbacksFired == Len(calls) + BagCardinality(extraCalls)

\* a session operation, and the function that invoked it
Op(op, by) == [op |-> op, by |-> by]

\* the collaborator's session thread is running and may invoke callbacks
SessionLive == conversation \in {"started", "ending"}

\* Conversation.end_session() on a session in state s
end_session(s) ==
    CASE s = "constructed" -> "stopped"
      [] s = "started"     -> "ending"
      [] OTHER             -> s

Init ==
    /\ pc = "new"
    /\ env \in [AGENT_ID : AgentIds, VOLUME : Volumes]
    /\ now = 0
    /\ fs \in FsStates
    /\ files \in IF fs = "dir"
                 THEN {[f \in {} |-> StaleDoc], [f \in {ErrorFile} |-> StaleDoc]}
                 ELSE {[f \in {} |-> StaleDoc]}
    /\ agent_id = "None"
    /\ client = FALSE
    /\ handler = FALSE
    /\ tools = FALSE
    /\ start_time = None
    /\ conversation = "None"
    /\ history = <<>>
    /\ exc = "none"
    /\ exitCode = None
    /\ sigints = 0
    /\ calls = <<>>
    /\ saves = <<>>
    /\ sessionOps = <<>>
    /\ raised = {}
    /\ intrActive = FALSE
    /\ log = EmptyBag
    /\ pending = NoPending
    /\ extraCalls = EmptyBag

\* faulty variant of HasConversation: end_session is called without the guard
HasConversation_Always == TRUE

\* lines 109, 171: if self.conversation
HasConversation == conversation # "None"

\* faulty variant of NothingToSave: the guard of lines 62-63 is missing
NothingToSave_NoGuard == FALSE

\* lines 62-63: if not self.history
NothingToSave == history = <<>>

\* --------------------------------------------------------------- raising
\* statements of the try body of start (lines 136-167)
TryBody == {"install", "record_time", "setup_tools", "construct",
            "start_session", "wait", "save"}

\* statements of start up to its last save_conversation: callbacks that
\* arrive later find no reader of the transcript and are left out
Listening == TryBody \cup {"except", "except_save"}

\* where an Exception raised at statement p is handled: the except clause of
\* start (169), the except clause of main (183), or nowhere (raised inside
\* main's own handler: the interpreter ends with status 1)
RaisePc(p) ==
    IF p \in TryBody THEN "except"
    ELSE IF p = "main_except" THEN "exited"
    ELSE "main_except"

Raise(kind, by) ==
    /\ pc' = RaisePc(pc)
    /\ exc' = IF RaisePc(pc) = "main_except" THEN "Exception" ELSE exc
    /\ exitCode' = IF RaisePc(pc) = "exited" THEN 1 ELSE exitCode
    /\ raised' = raised \cup {[kind |-> kind, by |-> by]}

\* ------------------------------------------------------------- __init__
\* faulty variant of AgentIdMissing: only an unset AGENT_ID is refused (is None)
AgentIdMissing_NoneOnly == getenv("AGENT_ID") = "None"

\* line 42: not self.agent_id
AgentIdMissing == getenv("AGENT_ID") \in {"None", ""}

\* lines 34-43: load the configuration, require AGENT_ID
Init_CheckAgentId ==
    /\ pc = "new"
    /\ agent_id' = getenv("AGENT_ID")
    /\ IF AgentIdMissing
       THEN Raise("config", "__init__")
       ELSE /\ pc' = "init_state"
            /\ UNCHANGED <<exc, exitCode, raised>>
    /\ UNCHANGED <<env, now, fs, files, client, handler, tools, start_time,
                   conversation, history, sigints, calls, saves, sessionOps, intrActive>>
    /\ UNCHANGED <<log, pending, extraCalls>>

\* lines 45-53: optional configuration, initial state, API client
Init_State ==
    /\ pc = "init_state"
    /\ IF VolumeParses
       THEN /\ client' = TRUE
            /\ conversation' = "None"
            /\ history' = <<>>
            /\ start_time' = None
            /\ pc' = "install"
            /\ UNCHANGED <<exc, exitCode, raised>>
       ELSE /\ Raise("config_opt", "__init__")
            /\ UNCHANGED <<client, conversation, history, start_time>>
    /\ UNCHANGED <<env, now, fs, files, agent_id, handler, tools, sigints,
                   calls, saves, sessionOps, intrActive>>
    /\ UNCHANGED <<log, pending, extraCalls>>

\* ------------------------------------------------------ save_conversation
\* lines 55-78, called from statement pc of start; control continues at retPc
save_conversation(filename, retPc) ==
    LET dir == IF filename = NoFile THEN mkdir(fs) ELSE fs
        \* lines 68-69: t1 is the reading of line 68
        target(t1) == IF filename = NoFile THEN DefaultFile(strftime(t1)) ELSE filename
        \* lines 72-76: t2 is the reading of line 74
        doc(t2) == [start_time |-> IF start_time # None THEN isoformat(start_time) ELSE <<>>,
                    end_time |-> isoformat(t2),
                    history |-> history]
        rec(file, result, written) ==
            [arg |-> filename, file |-> file, hist |-> history, calls |-> calls,
             doc |-> written, live |-> SessionLive, result |-> result]
    IN  IF NothingToSave
        THEN /\ pc' = retPc
             /\ saves' = Append(saves, rec(filename, "skipped", <<>>))
             /\ UNCHANGED <<now, fs, files, exc, exitCode, raised, log>>
        ELSE IF dir = "raise"
        THEN /\ Raise("write", "save_conversation")
             /\ saves' = Append(saves, rec(filename, "failed", <<>>))
             /\ UNCHANGED <<now, fs, files, log>>
        ELSE \E t1 \in IF filename = NoFile THEN Readings(now) ELSE {now} :
             IF ~open_w(dir)
             THEN /\ Raise("write", "save_conversation")
                  /\ now' = t1
                  /\ fs' = dir
                  /\ saves' = Append(saves, rec(target(t1), "failed", <<>>))
                  /\ UNCHANGED <<files, log>>
             ELSE \E t2 \in Readings(t1) :
                  /\ pc' = retPc
                  /\ now' = t2
                  /\ fs' = dir
                  /\ files' = (target(t1) :> doc(t2)) @@ files
                  /\ saves' = Append(saves, rec(target(t1), "written", doc(t2)))
                  /\ log' = Logged(<<"INFO", "Conversation saved to ", target(t1)>>)
                  /\ UNCHANGED <<exc, exitCode, raised>>

\* -------------------------------------------------------------- callbacks
\* faulty variant of agent_response_callback: the entry is inserted at the front
agent_response_callback_Front(response) ==
    /\ SessionLive
    /\ pc \in Listening
    /\ CallbacksFired < MaxHistory
    /\ \E t \in Readings(now) :
          /\ now' = t
          /\ history' = <<[role |-> "agent", text |-> response,
                           timestamp |-> isoformat(t)]>> \o history
    /\ calls' = Append(calls, <<"agent", response>>)
    /\ UNCHANGED <<pc, env, fs, files, prog, conversation, exc, exitCode,
                   sigints, saves, sessionOps, raised, intrActive>>
    /\ log' = Logged(<<"INFO", "Agent: ", response>>)
    /\ UNCHANGED <<pending, extraCalls>>

\* lines 80-87, invoked by the collaborator while the session is live
agent_response_callback(response) ==
    /\ SessionLive
    /\ pc \in Listening
    /\ CallbacksFired < MaxHistory
    /\ \E t \in Readings(now) :
          /\ now' = t
          /\ history' = Append(history, [role |-> "agent", text |-> response,
                                         timestamp |-> isoformat(t)])
    /\ calls' = Append(calls, <<"agent", response>>)
    /\ UNCHANGED <<pc, env, fs, files, prog, conversation, exc, exitCode,
                   sigints, saves, sessionOps, raised, intrActive>>
    /\ log' = Logged(<<"INFO", "Agent: ", response>>)
    /\ UNCHANGED <<pending, extraCalls>>

\* lines 89-96
user_transcript_callback(transcript) ==
    /\ SessionLive
    /\ pc \in Listening
    /\ CallbacksFired < MaxHistory
    /\ \E t \in Readings(now) :
          /\ now' = t
          /\ history' = Append(history, [role |-> "user", text |-> transcript,
                                         timestamp |-> isoformat(t)])
    /\ calls' = Append(calls, <<"user", transcript>>)
    /\ UNCHANGED <<pc, env, fs, files, prog, conversation, exc, exitCode,
                   sigints, saves, sessionOps, raised, intrActive>>
    /\ log' = Logged(<<"INFO", "User: ", transcript>>)
    /\ UNCHANGED <<pending, extraCalls>>

\* ------------------------------------------ callbacks on separate threads
\* the callbacks started and not yet finished by their thread
InFlight == Cardinality({role \in DOMAIN pending : pending[role] # <<>>})

\* lines 82-86 (role "agent") and 91-95 (role "user") on the thread that
\* delivers that callback: the argument of append is evaluated, reading the clock
build_entry(role, text) ==
    /\ SessionLive
    /\ pc \in Listening
    /\ pending[role] = <<>>
    /\ CallbacksFired + InFlight < MaxHistory
    /\ \E t \in Readings(now) :
          /\ now' = t
          /\ pending' = [pending EXCEPT ![role] =
                           <<[role |-> role, text |-> text, timestamp |-> isoformat(t)]>>]
    /\ UNCHANGED <<pc, env, fs, files, prog, conversation, history, exc, exitCode,
                   sigints, ghost, log>>

\* lines 82 and 87 (role "agent"), 91 and 96 (role "user"): the same thread
\* appends the entry it built and logs the text
append_entry(role) ==
    /\ pending[role] # <<>>
    /\ pc # "exited"
    /\ history' = Append(history, pending[role][1])
    /\ pending' = [pending EXCEPT ![role] = <<>>]
    /\ calls' = Append(calls, <<role, pending[role][1].text>>)
    /\ log' = Logged(<<"INFO", IF role = "agent" THEN "Agent: " ELSE "User: ",
                       pending[role][1].text>>)
    /\ UNCHANGED <<pc, env, now, fs, files, prog, conversation, exc, exitCode,
                   sigints, saves, sessionOps, raised, intrActive, extraCalls>>

\* faulty variant of correction_callback: the corrected text replaces the
\* text of the recorded agent entries that hold the original
correction_callback_Substitute(original, corrected) ==
    /\ SessionLive
    /\ pc \in Listening
    /\ CallbacksFired < MaxHistory
    /\ history' = [i \in 1..Len(history) |->
                      IF history[i].role = "agent" /\ history[i].text = original
                      THEN [history[i] EXCEPT !.text = corrected]
                      ELSE history[i]]
    /\ log' = Logged(<<"INFO", "Correction: ", original, corrected>>)
    /\ extraCalls' = extraCalls (+) SetToBag({<<"correction", original, corrected>>})
    /\ UNCHANGED <<pc, env, now, fs, files, prog, conversation, exc, exitCode,
                   sigints, calls, saves, sessionOps, raised, intrActive, pending>>

\* lines 98-100
correction_callback(original, corrected) ==
    /\ SessionLive
    /\ pc \in Listening
    /\ CallbacksFired < MaxHistory
    /\ log' = Logged(<<"INFO", "Correction: ", original, corrected>>)
    /\ extraCalls' = extraCalls (+) SetToBag({<<"correction", original, corrected>>})
    /\ UNCHANGED <<pc, env, now, fs, files, prog, conversation, history, exc, exitCode,
                   sigints, calls, saves, sessionOps, raised, intrActive, pending>>

\* lines 102-104: logger.debug, below the level the logger emits
latency_callback(latency) ==
    /\ SessionLive
    /\ pc \in Listening
    /\ log' = Logged(<<"DEBUG", "Latency: ", latency>>)
    /\ UNCHANGED <<pc, env, now, fs, files, prog, conversation, history, exc, exitCode,
                   sigints, ghost, pending>>

\* line 127: if message
Truthy(message) == message # ""

\* lines 119-128: the client tool logMessage, invoked by the collaborator with
\* parameters = {"message": message} once line 131 registered it
log_message(message) ==
    /\ tools
    /\ SessionLive
    /\ pc \in Listening
    /\ CallbacksFired < MaxHistory
    /\ log' = IF Truthy(message)
              THEN Logged(<<"INFO", "AI Tool Call - Log Message: ", message>>)
              ELSE log
    /\ extraCalls' = extraCalls (+) SetToBag({<<"logMessage", message>>})
    /\ UNCHANGED <<pc, env, now, fs, files, prog, conversation, history, exc, exitCode,
                   sigints, calls, saves, sessionOps, raised, intrActive, pending>>

\* ---------------------------------------------------------------- signals
\* lines 106-110, run by a SIGINT delivered once line 138 installed it; an
\* exception raised by end_session surfaces in the main thread at statement pc
handle_interrupt ==
    /\ handler
    /\ pc # "exited"
    /\ sigints < MaxSigint
    /\ sigints' = sigints + 1
    /\ IF HasConversation
       THEN /\ sessionOps' = Append(sessionOps, Op("end_session", "handle_interrupt"))
            /\ intrActive' = (intrActive \/ conversation = "started")
            /\ \/ /\ conversation' = end_session(conversation)
                  /\ UNCHANGED <<pc, exc, exitCode, raised>>
               \/ /\ Raise("end_session", "handle_interrupt")
                  /\ UNCHANGED conversation
       ELSE UNCHANGED <<pc, exc, exitCode, raised, conversation, sessionOps, intrActive>>
    /\ UNCHANGED <<env, now, fs, files, prog, history, calls, saves>>
    /\ log' = Logged(<<"INFO", "Received interrupt signal. Ending conversation...">>)
    /\ UNCHANGED <<pending, extraCalls>>

\* a SIGINT delivered before line 138 ran: the default handler raises
\* KeyboardInterrupt in the try body of main (lines 178-180)
KeyboardInterrupt ==
    /\ ~handler
    /\ pc \in {"new", "init_state", "install"}
    /\ sigints < MaxSigint
    /\ sigints' = sigints + 1
    /\ pc' = "main_except"
    /\ exc' = "KeyboardInterrupt"
    /\ UNCHANGED <<env, now, fs, files, prog, conversation, history, exitCode,
                   calls, saves, sessionOps, raised, intrActive>>
    /\ UNCHANGED <<log, pending, extraCalls>>

\* ------------------------------------------------------------------ start
\* lines 134-138: enter the try body, install the SIGINT handler
Start_InstallHandler ==
    /\ pc = "install"
    /\ handler' = TRUE
    /\ pc' = "record_time"
    /\ UNCHANGED <<env, now, fs, files, agent_id, client, tools, start_time,
                   conversation, history, exc, exitCode, sigints, ghost>>
    /\ UNCHANGED <<log, pending>>

\* faulty variant of Start_RecordTime: the start instant is not recorded
Start_RecordTime_Skipped ==
    /\ pc = "record_time"
    /\ pc' = "setup_tools"
    /\ UNCHANGED <<env, now, fs, files, agent_id, client, handler, tools, start_time,
                   conversation, history, exc, exitCode, sigints, ghost>>
    /\ UNCHANGED <<log, pending>>

\* line 140
Start_RecordTime ==
    /\ pc = "record_time"
    /\ \E t \in Readings(now) :
          /\ now' = t
          /\ start_time' = t
    /\ pc' = "setup_tools"
    /\ UNCHANGED <<env, fs, files, agent_id, client, handler, tools,
                   conversation, history, exc, exitCode, sigints, ghost>>
    /\ UNCHANGED <<log, pending>>

\* lines 142-143 and 112-132: register logMessage
setup_client_tools ==
    /\ pc = "setup_tools"
    /\ tools' = TRUE
    /\ pc' = "construct"
    /\ UNCHANGED <<env, now, fs, files, agent_id, client, handler, start_time,
                   conversation, history, exc, exitCode, sigints, ghost>>
    /\ UNCHANGED <<log, pending>>

\* faulty variant of Start_Construct: a session object is assigned to
\* self.conversation although the construction raised
Start_Construct_Assigned ==
    /\ pc = "construct"
    /\ conversation' = "constructed"
    /\ sessionOps' = Append(sessionOps, Op("construct", "start"))
    /\ \/ /\ pc' = "start_session"
          /\ UNCHANGED <<exc, exitCode, raised>>
       \/ Raise("construct", "start")
    /\ UNCHANGED <<env, now, fs, files, prog, history, sigints, calls, saves, intrActive>>
    /\ UNCHANGED <<log, pending, extraCalls>>

\* lines 145-157: Conversation(...) returns the session object, or raises
Start_Construct ==
    /\ pc = "construct"
    /\ \/ /\ conversation' = "constructed"
          /\ sessionOps' = Append(sessionOps, Op("construct", "start"))
          /\ pc' = "start_session"
          /\ UNCHANGED <<exc, exitCode, raised>>
       \/ /\ Raise("construct", "start")
          /\ UNCHANGED <<conversation, sessionOps>>
    /\ UNCHANGED <<env, now, fs, files, prog, history, sigints, calls, saves, intrActive>>
    /\ UNCHANGED <<log, pending, extraCalls>>

\* lines 159-160: start_session() starts the session thread, or raises
Start_StartSession ==
    /\ pc = "start_session"
    /\ sessionOps' = Append(sessionOps, Op("start_session", "start"))
    /\ \/ /\ conversation' = IF conversation = "stopped" THEN "ending" ELSE "started"
          /\ pc' = "wait"
          /\ UNCHANGED <<exc, exitCode, raised>>
       \/ /\ Raise("start_session", "start")
          /\ UNCHANGED conversation
    /\ UNCHANGED <<env, now, fs, files, prog, history, sigints, calls, saves, intrActive>>
    /\ log' = Logged(<<"INFO", "Starting conversation. Press Ctrl+C to end.">>)
    /\ UNCHANGED <<pending, extraCalls>>

\* lines 162-164: wait_for_session_end() returns once the session thread has
\* ended (the collaborator reported the end, or end_session was called), or raises
Start_Wait ==
    /\ pc = "wait"
    /\ sessionOps' = Append(sessionOps, Op("wait_for_session_end", "start"))
    /\ \/ /\ conversation' = "ended"
          /\ pc' = "save"
          /\ log' = Logged(<<"INFO", "Conversation ended. ID: ">>)
          /\ UNCHANGED <<exc, exitCode, raised>>
       \/ /\ Raise("wait_for_session_end", "start")
          /\ UNCHANGED <<conversation, log>>
    /\ UNCHANGED <<env, now, fs, files, prog, history, sigints, calls, saves, intrActive>>
    /\ UNCHANGED <<pending, extraCalls>>

\* lines 166-167: self.save_conversation()
Start_Save ==
    /\ pc = "save"
    /\ save_conversation(NoFile, "return")
    /\ UNCHANGED <<env, prog, conversation, history, sigints, calls,
                   sessionOps, intrActive>>
    /\ UNCHANGED <<pending, extraCalls>>

\* lines 169-172: log the error, end the session if there is one
Start_ExceptEnd ==
    /\ pc = "except"
    /\ IF HasConversation
       THEN /\ sessionOps' = Append(sessionOps, Op("end_session", "start"))
            /\ \/ /\ conversation' = end_session(conversation)
                  /\ pc' = "except_save"
                  /\ UNCHANGED <<exc, exitCode, raised>>
               \/ /\ Raise("end_session", "start")
                  /\ UNCHANGED conversation
       ELSE /\ pc' = "except_save"
            /\ UNCHANGED <<conversation, sessionOps, exc, exitCode, raised>>
    /\ UNCHANGED <<env, now, fs, files, prog, history, sigints, calls, saves, intrActive>>
    /\ log' = Logged(<<"ERROR", "Error during conversation: ">>)
    /\ UNCHANGED <<pending, extraCalls>>

\* line 173: self.save_conversation("logs/conversation_error.json")
Start_ExceptSave ==
    /\ pc = "except_save"
    /\ save_conversation(ErrorFile, "exit1")
    /\ UNCHANGED <<env, prog, conversation, history, sigints, calls,
                   sessionOps, intrActive>>
    /\ UNCHANGED <<pending, extraCalls>>

\* line 174: sys.exit(1)
Start_Exit ==
    /\ pc = "exit1"
    /\ pc' = "exited"
    /\ exitCode' = 1
    /\ UNCHANGED <<env, now, fs, files, prog, conversation, history, exc,
                   sigints, ghost>>
    /\ UNCHANGED <<log, pending>>

\* ------------------------------------------------------------------- main
\* lines 176-180, 187-188: start returned, main returns, the process ends with 0
Main_Return ==
    /\ pc = "return"
    /\ pc' = "exited"
    /\ exitCode' = 0
    /\ UNCHANGED <<env, now, fs, files, prog, conversation, history, exc,
                   sigints, ghost>>
    /\ UNCHANGED <<log, pending>>

\* lines 181-182: KeyboardInterrupt is logged, main returns
Main_KeyboardInterrupt ==
    /\ pc = "main_except"
    /\ exc = "KeyboardInterrupt"
    /\ pc' = "exited"
    /\ exitCode' = 0
    /\ UNCHANGED <<env, now, fs, files, prog, conversation, history, exc,
                   sigints, ghost>>
    /\ log' = Logged(<<"INFO", "Application terminated by user">>)
    /\ UNCHANGED pending

\* faulty variant of Main_Exception: the exception is logged and main returns
Main_Exception_NoExit ==
    /\ pc = "main_except"
    /\ exc = "Exception"
    /\ pc' = "exited"
    /\ exitCode' = 0
    /\ UNCHANGED <<env, now, fs, files, prog, conversation, history, exc,
                   sigints, ghost>>
    /\ log' = Logged(<<"ERROR", "Application error: ">>)
    /\ UNCHANGED pending

\* lines 183-185: any other exception is logged, sys.exit(1)
Main_Exception ==
    /\ pc = "main_except"
    /\ exc = "Exception"
    /\ pc' = "exited"
    /\ exitCode' = 1
    /\ UNCHANGED <<env, now, fs, files, prog, conversation, history, exc,
                   sigints, ghost>>
    /\ log' = Logged(<<"ERROR", "Application error: ">>)
    /\ UNCHANGED pending

Next ==
    \/ Init_CheckAgentId
    \/ Init_State
    \/ Start_InstallHandler
    \/ Start_RecordTime
    \/ setup_client_tools
    \/ Start_Construct
    \/ Start_StartSession
    \/ Start_Wait
    \/ Start_Save
    \/ Start_ExceptEnd
    \/ Start_ExceptSave
    \/ Start_Exit
    \/ Main_Return
    \/ Main_KeyboardInterrupt
    \/ Main_Exception
    \/ \E response \in AgentTexts : agent_response_callback(response)
    \/ \E transcript \in UserTexts : user_transcript_callback(transcript)
    \/ \E original \in AgentTexts, corrected \in Corrections :
          correction_callback(original, corrected)
    \/ \E latency \in Latencies : latency_callback(latency)
    \/ \E message \in ToolMessages : log_message(message)
    \/ handle_interrupt
    \/ KeyboardInterrupt

Spec == Init /\ [][Next]_vars

\* ------------------------------------ callbacks delivered by two threads
\* one run with a valid configuration and a writable logs/ directory
InitThreads ==
    /\ Init
    /\ env = [AGENT_ID |-> "abc123", VOLUME |-> "unset"]
    /\ fs = "dir"
    /\ files = [f \in {} |-> StaleDoc]

\* the program with agent_response_callback and user_transcript_callback
\* delivered on a thread each, a thread switch allowed between the reading of
\* the clock and the append
NextThreads ==
    \/ Init_CheckAgentId
    \/ Init_State
    \/ Start_InstallHandler
    \/ Start_RecordTime
    \/ setup_client_tools
    \/ Start_Construct
    \/ Start_StartSession
    \/ Start_Wait
    \/ Start_Save
    \/ Start_ExceptEnd
    \/ Start_ExceptSave
    \/ Start_Exit
    \/ Main_Return
    \/ Main_KeyboardInterrupt
    \/ Main_Exception
    \/ \E response \in AgentTexts : build_entry("agent", response)
    \/ \E transcript \in UserTexts : build_entry("user", transcript)
    \/ append_entry("agent")
    \/ append_entry("user")
    \/ \E original \in AgentTexts, corrected \in Corrections :
          correction_callback(original, corrected)
    \/ \E latency \in Latencies : latency_callback(latency)
    \/ \E message \in ToolMessages : log_message(message)
    \/ handle_interrupt
    \/ KeyboardInterrupt

SpecThreads == InitThreads /\ [][NextThreads]_vars

\* ------------------------------------------------------------ type check
TypeOK ==
    /\ pc \in TryBody \cup {"new", "init_state", "return", "except", "except_save",
                            "exit1", "main_except", "exited"}
    /\ now \in 0..MaxTime
    /\ fs \in FsStates
    /\ conversation \in {"None", "constructed", "stopped", "started", "ending", "ended"}
    /\ exitCode \in {None, 0, 1}
    /\ (pc = "exited") = (exitCode # None)
    /\ Len(history) <= MaxHistory
    /\ Len(saves) <= 2

\* ================================================================ claims
\* role and text of the entries of a history array
RoleText(h) == [i \in 1..Len(h) |-> <<h[i].role, h[i].text>>]

\* the save_conversation invocations that wrote a file
Written == {i \in 1..Len(saves) : saves[i].result = "written"}

\* C1: the history array a save_conversation persists has one entry per
\* callback invocation made before the write, in invocation order, with the
\* role of the callback and the text passed; the in-memory history is that
\* sequence at every moment, and a run that ends with status 0 has persisted
\* every invocation of the session.
C1_HistoryFidelity ==
    /\ RoleText(history) = calls
    /\ \A i \in Written :
          /\ RoleText(saves[i].doc.history) = saves[i].calls
          /\ saves[i].file \in DOMAIN files
          /\ RoleText(files[saves[i].file].history) \in
                {saves[j].calls : j \in {k \in Written : saves[k].file = saves[i].file}}
    /\ (pc = "exited" /\ exitCode = 0 /\ Written # {}) =>
          \E i \in Written : RoleText(files[saves[i].file].history) = calls

\* C1 witness: a written transcript holds a user entry followed by an agent entry
C1_Witness ==
    \E i \in Written :
        /\ saves[i].calls = << <<"user", "hello">>, <<"agent", "hi there">> >>
        /\ RoleText(files[saves[i].file].history) = saves[i].calls

\* C2: a transcript file is created or overwritten only by a save_conversation
\* called with a non-empty history; a call with an empty history writes
\* nothing, and a run without callbacks leaves the files under logs/ as they were.
C2_NoEmptyTranscript ==
    /\ \A i \in 1..Len(saves) :
          (saves[i].hist = <<>>) = (saves[i].result = "skipped")
    /\ \A f \in DOMAIN files : files[f].history # <<>>
    /\ calls = <<>> =>
          /\ Written = {}
          /\ \A f \in DOMAIN files : f = ErrorFile /\ files[f] = StaleDoc

\* C2 witness: a session that ran without callbacks ended, its save skipped
C2_Witness ==
    /\ pc = "exited"
    /\ conversation = "ended"
    /\ calls = <<>>
    /\ Len(saves) = 1
    /\ saves[1].result = "skipped"
    /\ DOMAIN files = {}

\* C3 (as claimed): when wait_for_session_end raises and the error handler
\* reaches its save with entries recorded, the run ends with those entries
\* written to logs/conversation_error.json and with exit code 1, whether logs
\* is a directory or does not exist.
C3_Original ==
    ( /\ pc = "exited"
      /\ fs \in {"absent", "dir"}
      /\ \E r \in raised : r.kind = "wait_for_session_end"
      /\ \E i \in 1..Len(saves) : saves[i].arg = ErrorFile /\ saves[i].hist # <<>> )
    => /\ exitCode = 1
       /\ \E i \in Written :
             /\ saves[i].file = ErrorFile
             /\ ErrorFile \in DOMAIN files
             /\ files[ErrorFile].history = saves[i].hist

\* number of end_session invocations made by the function `by`
EndCalls(by) ==
    Cardinality({i \in 1..Len(sessionOps) : sessionOps[i] = Op("end_session", by)})

\* C4 (as claimed): a run in which a session was constructed makes exactly one
\* end_session invocation, counting those of handle_interrupt and of the error
\* handler of start.
C4_Original ==
    (pc = "exited" /\ conversation # "None") =>
        EndCalls("handle_interrupt") + EndCalls("start") = 1

\* C4 (amended): end_session is invoked only on a constructed session, at most
\* once by the error handler of start (and only after an error), at most once
\* per SIGINT by handle_interrupt; a run that ends without signal and without
\* error invokes it not at all.
C4_EndSessionCount ==
    /\ EndCalls("start") <= 1
    /\ EndCalls("start") = 1 => raised # {}
    /\ EndCalls("handle_interrupt") <= sigints
    /\ \A i \in 1..Len(sessionOps) :
          sessionOps[i].op = "end_session" =>
              \E j \in 1..(i - 1) : sessionOps[j].op = "construct"
    /\ conversation = "None" => sessionOps = <<>>
    /\ (pc = "exited" /\ sigints = 0 /\ raised = {}) =>
          EndCalls("handle_interrupt") + EndCalls("start") = 0

\* C4 witness: a run ended after two SIGINTs and an error, with three invocations
C4_Witness ==
    /\ pc = "exited"
    /\ EndCalls("handle_interrupt") = 2
    /\ EndCalls("start") = 1

\* C5 (as claimed): a run interrupted while the session was Active, in which
\* nothing failed but an end_session called by handle_interrupt, ends with
\* exit code 0 and the recorded entries written to the default path.
C5_Original ==
    ( /\ pc = "exited"
      /\ intrActive
      /\ \A r \in raised : r.by = "handle_interrupt" )
    => /\ exitCode = 0
       /\ history # <<>> =>
             \E i \in Written : saves[i].arg = NoFile /\ saves[i].doc.history = history

\* C6: with AGENT_ID unset or empty the construction raises the configuration
\* error at line 43 before any side effect: no API client, no signal handler,
\* no tools, no session, no save and no file, and main exits with code 1.
C6_MissingAgentId ==
    env.AGENT_ID \in {"unset", ""} =>
        /\ ~client
        /\ ~handler
        /\ ~tools
        /\ start_time = None
        /\ conversation = "None"
        /\ sessionOps = <<>>
        /\ saves = <<>>
        /\ \A f \in DOMAIN files : f = ErrorFile /\ files[f] = StaleDoc
        /\ raised \subseteq {[kind |-> "config", by |-> "__init__"]}
        /\ (pc # "new" /\ exc # "KeyboardInterrupt") => raised # {}
        /\ (pc = "exited" /\ raised # {}) => exitCode = 1

\* C6 witness: the process ended with code 1 on an empty AGENT_ID
C6_Witness ==
    /\ pc = "exited"
    /\ env.AGENT_ID = ""
    /\ raised = {[kind |-> "config", by |-> "__init__"]}
    /\ exitCode = 1

\* C7 (as claimed): a run in which start installed its handler does not end
\* before save_conversation was invoked.
C7_Original ==
    (pc = "exited" /\ handler) => saves # <<>>

\* C8 (as claimed): no save_conversation serialises the history while the
\* session can still invoke callbacks.
C8_Original ==
    \A i \in Written : ~saves[i].live

\* C9: the process ends with code 0 or 1; with 1 exactly when an error was
\* raised (configuration, session construction, streaming, write), with 0
\* exactly when none was: the session ended and the default save ran, or the
\* run was interrupted before start installed its handler.
C9_ExitCodes ==
    pc = "exited" =>
        /\ exitCode \in {0, 1}
        /\ (exitCode = 1) = (raised # {})
        /\ exitCode = 0 =>
              \/ exc = "KeyboardInterrupt"
              \/ /\ conversation = "ended"
                 /\ Len(saves) = 1
                 /\ saves[1].arg = NoFile
                 /\ saves[1].result # "failed"

\* C9 witness: the session construction failed and the process ended with 1
C9_Witness ==
    /\ pc = "exited"
    /\ raised = {[kind |-> "construct", by |-> "start"]}
    /\ exitCode = 1

\* C10 (as claimed): after a failed transcript write no further write is
\* attempted, and the process ends with a non-zero code.
C10_Original ==
    /\ \A i \in 1..Len(saves) : saves[i].result = "failed" => i = Len(saves)
    /\ (pc = "exited" /\ \E i \in 1..Len(saves) : saves[i].result = "failed") =>
          exitCode = 1

\* C11 (as claimed): the default transcript is written to the file under
\* logs/ named after the start instant (self.start_time) truncated to
\* seconds, also when the session ends in a later second.
C11_Original ==
    \A i \in Written :
        saves[i].arg = NoFile => saves[i].file = DefaultFile(strftime(start_time))

\* the step is an invocation of correction_callback(original, corrected)
CorrectionStep ==
    \E original \in AgentTexts, corrected \in Corrections :
        CopiesIn(<<"correction", original, corrected>>, extraCalls')
            > CopiesIn(<<"correction", original, corrected>>, extraCalls)

\* C12: an invocation of correction_callback leaves the transcript as it was
\* (same length, same entries in the same order), also when the original is
\* the text of a recorded agent entry.
C12_CorrectionFrame == [][CorrectionStep => history' = history]_vars

\* a correction was delivered whose original is the text of a recorded agent entry
C12_Witness ==
    \E original \in AgentTexts, corrected \in Corrections :
        /\ BagIn(<<"correction", original, corrected>>, extraCalls)
        /\ \E i \in 1..Len(history) :
              history[i].role = "agent" /\ history[i].text = original

\* positions of the session operations named op
OpsAt(op) == {i \in 1..Len(sessionOps) : sessionOps[i].op = op}

\* the order of the steps of start (lines 138, 140, 146, 160, 163)
LifecycleOrder ==
    /\ start_time # None => handler
    /\ conversation # "None" => start_time # None
    /\ OpsAt("construct") # {} <=> conversation # "None"
    /\ \A i \in OpsAt("start_session") : \E j \in OpsAt("construct") : j < i
    /\ \A i \in OpsAt("wait_for_session_end") :
          /\ \E j \in OpsAt("start_session") : j < i
          /\ [kind |-> "start_session", by |-> "start"] \notin raised

\* a terminal outcome has been reached: the transcript of the run was
\* persisted (or there was none to persist) and start has nothing left to do
\* but return (Ended normal or interrupted) or exit (Ended error)
TerminalOutcome == pc \in {"return", "exit1", "exited"}

\* C13 (as claimed): the handler is installed before the start instant is
\* recorded, the instant before the session is constructed, the session before
\* start_session, wait_for_session_end only after start_session returned, and
\* no session operation happens once a terminal outcome has been reached.
C13_Original ==
    /\ []LifecycleOrder
    /\ [][TerminalOutcome => sessionOps' = sessionOps]_vars

\* C14: a SIGINT delivered while self.conversation is None calls no
\* end_session and leaves history, start_time and conversation unchanged.
C14_InterruptWithoutSession ==
    [][(sigints' # sigints /\ conversation = "None") =>
          /\ sessionOps' = sessionOps
          /\ history' = history
          /\ start_time' = start_time
          /\ conversation' = conversation]_vars

\* C14 witness: handle_interrupt ran between line 138 and the assignment of
\* line 146, and start went on
C14_Witness ==
    /\ handler
    /\ sigints > 0
    /\ conversation = "None"
    /\ sessionOps = <<>>
    /\ pc = "construct"
    /\ BagIn(<<"INFO", "Received interrupt signal. Ending conversation...">>, log)

\* C15 (as claimed): every invocation of logMessage with a string message,
\* the empty string included, writes one line with that message to the log.
C15_Original ==
    \A message \in ToolMessages :
        CopiesIn(<<"INFO", "AI Tool Call - Log Message: ", message>>, log)
            = CopiesIn(<<"logMessage", message>>, extraCalls)

\* C16 (as claimed): the timestamps of the entries of history are
\* non-decreasing in index order, also when agent_response_callback and
\* user_transcript_callback run on different threads.
C16_Original ==
    \A i \in 1..Len(history), j \in 1..Len(history) :
        i < j =>
            \/ history[i].timestamp[1] < history[j].timestamp[1]
            \/ /\ history[i].timestamp[1] = history[j].timestamp[1]
               /\ history[i].timestamp[2] <= history[j].timestamp[2]

\* Conversation(...) raised (lines 146-157)
ConstructRaised == [kind |-> "construct", by |-> "start"] \in raised

\* C17: when Conversation(...) raises, self.conversation stays None, neither
\* start_session nor end_session is called, history stays empty, the only
\* save_conversation is the one of the error handler and it writes no file,
\* and the process ends with status 1.
C17_ConstructFails ==
    ConstructRaised =>
        /\ conversation = "None"
        /\ sessionOps = <<>>
        /\ history = <<>>
        /\ pc \in {"except", "except_save", "exit1", "exited"}
        /\ \A i \in 1..Len(saves) :
              saves[i].arg = ErrorFile /\ saves[i].result = "skipped"
        /\ pc \in {"exit1", "exited"} => Len(saves) = 1
        /\ pc = "exited" => exitCode = 1

\* C17 witness: a run in which the construction failed has ended
C17_Witness ==
    /\ ConstructRaised
    /\ pc = "exited"
    /\ exitCode = 1
    /\ Len(saves) = 1

\* C18 (as claimed): no end_session call precedes the start_session call of
\* the run, whatever the moment a SIGINT is handled.
C18_Original ==
    \A i \in OpsAt("start_session"), j \in OpsAt("end_session") : i < j

\* instant a is not later than instant b, both in isoformat
NotLater(a, b) == a[1] < b[1] \/ (a[1] = b[1] /\ a[2] <= b[2])

\* C19: every transcript file written by the run has a start_time that is
\* not null and an end_time that is not earlier than it.
C19_WrittenTimes ==
    \A i \in Written :
        /\ saves[i].doc.start_time # <<>>
        /\ NotLater(saves[i].doc.start_time, saves[i].doc.end_time)

\* C19 witness: a file was written in a later second than the start instant
C19_Witness ==
    \E i \in Written :
        /\ saves[i].doc.start_time # <<>>
        /\ saves[i].doc.start_time[1] < saves[i].doc.end_time[1]

====
